---- MODULE Spec2Model ----
\* A model of mm0-rs/src/elab/inout.rs: the `output string` codec of the
\* MM0 elaborator (registry resolution, the string segment builder, the
\* DAG evaluator write_node / write_output_string, the nibble-packing
\* StringWriter and FrozenEnv::run_output).
EXTENDS Integers, Sequences, FiniteSets, TLC

VARIABLES
  env,      \* the Environment: sorts and term declarations
  stmts,    \* FrozenEnv::stmts(): the statement trace
  handler,  \* run_output's local `handler` / the result of new_string_handler
  w,        \* the StringWriter in use (under SpecBuilder: the StringSegBuilder)
  pc,       \* position of the running operation
  idx,      \* run_output's position in the statement trace (0-based)
  ret,      \* the Result of the last operation
  arg,      \* the inputs the last operation was called with
  hist      \* history of the calls made so far (counters, spans, a snapshot)

vars == <<env, stmts, handler, w, pc, idx, ret, arg, hist>>

\* ------------------------------------------------------------------
\* Bounds of the model
\* ------------------------------------------------------------------
MaxCalls == 3     \* calls made on one StringWriter by the writer harness
MaxStmts == 2     \* statements in the trace replayed by run_output
MaxCap == 1       \* largest capacity of a sink that fails when full

\* ------------------------------------------------------------------
\* Values
\* ------------------------------------------------------------------
\* Option<u8>::None of StringWriter.hex and StringSegBuilder.hex
None == -1

Nibbles == 0..15

\* hi << 4 | h on u8: the shift drops the bits above bit 7; the low four
\* bits of the shifted value are zero, so for h < 16 the bitwise or is a sum.
ShlOr(hi, h) == ((hi * 16) % 256) + h

\* OutputError (and the String errors of the resolver): msg is the message
\* with its holes left out, name the symbol formatted into it, expected the
\* signature rendered after "expected: " (empty when the message has none).
NoError == [kind |-> "None", msg |-> "", name |-> "", expected |-> <<>>]
IOError == [kind |-> "IOError", msg |-> "write failed", name |-> "", expected |-> <<>>]
StringError(m) == [kind |-> "String", msg |-> m, name |-> "", expected |-> <<>>]
PanicError(m) == [kind |-> "Panic", msg |-> m, name |-> "", expected |-> <<>>]

DummyMsg == "Found dummy variable in string definition"
UnknownMsg == "Unknown definition"

\* StringPart
HexPart(h) == [k |-> "Hex", h |-> h, s |-> <<>>]
StrPart(s) == [k |-> "Str", h |-> 0, s |-> s]

\* ------------------------------------------------------------------
\* The byte sink (io::Write)
\* ------------------------------------------------------------------
\* A Vec<u8> never fails; a bounded sink accepts `cap` bytes and then fails.
VecSink == [buf |-> <<>>, bounded |-> FALSE, cap |-> 0]
BoundedSink(c) == [buf |-> <<>>, bounded |-> TRUE, cap |-> c]

\* io::Write::write_all: all of buf, or an error after the part that fitted.
write_all(s, buf) ==
  IF ~s.bounded \/ Len(s.buf) + Len(buf) <= s.cap
  THEN [ok |-> TRUE, s |-> [s EXCEPT !.buf = @ \o buf]]
  ELSE [ok |-> FALSE,
        s |-> [s EXCEPT !.buf = @ \o SubSeq(buf, 1, s.cap - Len(s.buf))]]

\* ------------------------------------------------------------------
\* StringWriter
\* ------------------------------------------------------------------
\* StringWriter::default() / StringWriter {w, hex: None}
NewWriter(sink) == [w |-> sink, hex |-> None]

Ok(wr) == [ok |-> TRUE, err |-> NoError, w |-> wr]
Err(e, wr) == [ok |-> FALSE, err |-> e, w |-> wr]

\* Mutant of write_hex: the new nibble is packed as the high one.
write_hex_swapped(wr, h) ==
  IF wr.hex = None THEN Ok([wr EXCEPT !.hex = h])
  ELSE LET r == write_all(wr.w, <<ShlOr(h, wr.hex)>>)
           wr2 == [w |-> r.s, hex |-> None]
       IN  IF r.ok THEN Ok(wr2) ELSE Err(IOError, wr2)

\* Mutant of write_hex: the pending nibble stays after the byte is written.
write_hex_sticky(wr, h) ==
  IF wr.hex = None THEN Ok([wr EXCEPT !.hex = h])
  ELSE LET r == write_all(wr.w, <<ShlOr(wr.hex, h)>>)
           wr2 == [wr EXCEPT !.w = r.s]
       IN  IF r.ok THEN Ok(wr2) ELSE Err(IOError, wr2)

\* StringWriter::write_hex: self.hex.take() empties the slot in both arms.
write_hex(wr, h) ==
  IF wr.hex = None THEN Ok([wr EXCEPT !.hex = h])
  ELSE LET r == write_all(wr.w, <<ShlOr(wr.hex, h)>>)
           wr2 == [w |-> r.s, hex |-> None]
       IN  IF r.ok THEN Ok(wr2) ELSE Err(IOError, wr2)

\* Mutant of write_str: the literal write flushes the pending nibble away.
write_str_clearing(wr, buf) ==
  LET r == write_all(wr.w, buf)
      wr2 == [w |-> r.s, hex |-> None]
  IN  IF r.ok THEN Ok(wr2) ELSE Err(IOError, wr2)

\* StringWriter::write_str
write_str(wr, buf) ==
  LET r == write_all(wr.w, buf)
      wr2 == [wr EXCEPT !.w = r.s]
  IN  IF r.ok THEN Ok(wr2) ELSE Err(IOError, wr2)

\* Mutant of write_part: a nibble part is written as a byte of its own.
write_part_raw(wr, p) ==
  IF p.k = "Hex" THEN write_str(wr, <<p.h>>) ELSE write_str(wr, p.s)

\* StringWriter::write_part
write_part(wr, p) ==
  IF p.k = "Hex" THEN write_hex(wr, p.h) ELSE write_str(wr, p.s)

\* Mutant of Into: the buffer is always the part.
IntoBufferOnly(wr) == StrPart(wr.w.buf)

\* impl From<StringWriter<Vec<u8>>> for StringPart: a pending nibble wins
\* and the buffer is dropped.
Into(wr) == IF wr.hex = None THEN StrPart(wr.w.buf) ELSE HexPart(wr.hex)

\* ------------------------------------------------------------------
\* ExprNode, Expr, Type, Term
\* ------------------------------------------------------------------
Dummy == [tag |-> "Dummy", t |-> "", i |-> 0, ns |-> <<>>]
Ref(i) == [tag |-> "Ref", t |-> "", i |-> i, ns |-> <<>>]
App(t, ns) == [tag |-> "App", t |-> t, i |-> 0, ns |-> ns]

\* Type::Reg(sort, deps), Type::Bound(sort)
Reg(s) == [k |-> "Reg", sort |-> s, deps |-> 0]
RegDeps(s, d) == [k |-> "Reg", sort |-> s, deps |-> d]
Bound(s) == [k |-> "Bound", sort |-> s, deps |-> 0]

\* Term.val : Option<Option<Expr>>
NoVal == [kind |-> "term", heap |-> <<>>, head |-> Dummy]
NoBody == [kind |-> "nobody", heap |-> <<>>, head |-> Dummy]
Def(heap, head) == [kind |-> "def", heap |-> heap, head |-> head]

\* Term {args, ret: (sort, deps), val}
Term(targs, tret, val) == [args |-> targs, ret |-> <<tret, 0>>, val |-> val]

\* format!("x{:x}", i)
HexNames ==
  << "x0", "x1", "x2", "x3", "x4", "x5", "x6", "x7",
     "x8", "x9", "xa", "xb", "xc", "xd", "xe", "xf" >>
HexName(i) == HexNames[i + 1]

\* InoutStringType
Ty(k) == [k |-> k, h |-> 0]
TyHex(h) == [k |-> "Hex", h |-> h]
TyNone == [k |-> "None", h |-> 0]

\* HashMap::get
Get(terms, t) == IF t \in DOMAIN terms THEN terms[t] ELSE TyNone

\* ------------------------------------------------------------------
\* The DAG evaluator
\* ------------------------------------------------------------------
RECURSIVE write_node(_, _, _, _, _)
RECURSIVE eval_args(_, _, _, _, _, _)
RECURSIVE eval_heap(_, _, _, _, _)
RECURSIVE write_roots(_, _, _, _, _, _)

\* Mutant of write_pair: the first sub-node is written twice.
write_pair_dup(e, t, heap, ns, wr) ==
  LET r == write_node(e, t, heap, ns[1], wr)
  IN  IF r.ok THEN write_node(e, t, heap, ns[1], r.w) ELSE r

\* Mutant of write_pair: the second sub-node is written first.
write_pair_rev(e, t, heap, ns, wr) ==
  LET r == write_node(e, t, heap, ns[2], wr)
  IN  IF r.ok THEN write_node(e, t, heap, ns[1], r.w) ELSE r

\* write_node, the SAdd | SCons | Ch arm: sub-node 0, then sub-node 1.
write_pair(e, t, heap, ns, wr) ==
  LET r == write_node(e, t, heap, ns[1], wr)
  IN  IF r.ok THEN write_node(e, t, heap, ns[2], r.w) ELSE r

\* write_node, the first loop of the unfolding arm: each actual argument
\* ns[k..] is written to a fresh writer against the caller's heap.
eval_args(e, t, heap, ns, k, args) ==
  IF k > Len(ns) THEN [ok |-> TRUE, err |-> NoError, args |-> args]
  ELSE LET r == write_node(e, t, heap, ns[k], NewWriter(VecSink))
       IN  IF r.ok THEN eval_args(e, t, heap, ns, k + 1, Append(args, Into(r.w)))
           ELSE [ok |-> FALSE, err |-> r.err, args |-> args]

\* The loop of write_output_string over the heap, and the second loop of
\* the unfolding arm: entries es[k..] are written to fresh writers against
\* the list of parts resolved so far, which they extend.
eval_heap(e, t, es, k, args) ==
  IF k > Len(es) THEN [ok |-> TRUE, err |-> NoError, args |-> args]
  ELSE LET r == write_node(e, t, args, es[k], NewWriter(VecSink))
       IN  IF r.ok THEN eval_heap(e, t, es, k + 1, Append(args, Into(r.w)))
           ELSE [ok |-> FALSE, err |-> r.err, args |-> args]

\* Mutant of unfold: the body is written against the caller's heap instead
\* of the argument-plus-internal list.
unfold_outer_heap(e, t, heap, nd, wr) ==
  LET expr == e.terms[nd.t].val
      a1 == eval_args(e, t, heap, nd.ns, 1, <<>>)
      a2 == eval_heap(e, t, expr.heap, Len(nd.ns) + 1, a1.args)
  IN  IF ~a1.ok THEN Err(a1.err, wr)
      ELSE IF ~a2.ok THEN Err(a2.err, wr)
      ELSE write_node(e, t, heap, expr.head, wr)

\* Mutant of unfold: the body is written against the arguments alone,
\* without the internal heap entries.
unfold_no_internal(e, t, heap, nd, wr) ==
  LET expr == e.terms[nd.t].val
      a1 == eval_args(e, t, heap, nd.ns, 1, <<>>)
  IN  IF ~a1.ok THEN Err(a1.err, wr)
      ELSE write_node(e, t, a1.args, expr.head, wr)

\* write_node, the unfolding arm (Some(Some(expr))).
unfold(e, t, heap, nd, wr) ==
  LET expr == e.terms[nd.t].val
      a1 == eval_args(e, t, heap, nd.ns, 1, <<>>)
      a2 == eval_heap(e, t, expr.heap, Len(nd.ns) + 1, a1.args)
  IN  IF Len(nd.ns) > Len(expr.heap)
      THEN Err(PanicError("range start index out of range"), wr)
      ELSE IF ~a1.ok THEN Err(a1.err, wr)
      ELSE IF ~a2.ok THEN Err(a2.err, wr)
      ELSE write_node(e, t, a2.args, expr.head, wr)

\* Mutant of write_dummy: a dummy node is skipped.
write_dummy_skipped(wr) == Ok(wr)

\* write_node, the Dummy arm.
write_dummy(wr) == Err(StringError(DummyMsg), wr)

\* Mutant of write_unknown: an application nobody knows is skipped.
write_unknown_skipped(wr) == Ok(wr)

\* write_node, the else of the `_` arm: the term is not in the registry and
\* its val is None or Some(None).
write_unknown(wr) == Err(StringError(UnknownMsg), wr)

\* Environment::write_node
write_node(e, t, heap, nd, wr) ==
  CASE nd.tag = "Dummy" -> write_dummy(wr)
    [] nd.tag = "Ref" ->
         IF nd.i < Len(heap) THEN write_part(wr, heap[nd.i + 1])
         ELSE Err(PanicError("index out of bounds"), wr)
    [] OTHER ->
         LET ty == Get(t, nd.t)
         IN  CASE ty.k = "S0" -> Ok(wr)
               [] ty.k = "S1" -> write_node(e, t, heap, nd.ns[1], wr)
               [] ty.k \in {"SAdd", "SCons", "Ch"} -> write_pair(e, t, heap, nd.ns, wr)
               [] ty.k = "Hex" -> write_hex(wr, ty.h)
               [] OTHER ->
                    IF e.terms[nd.t].val.kind = "def" THEN unfold(e, t, heap, nd, wr)
                    ELSE write_unknown(wr)

\* write_output_string, the loop over the roots: each is streamed into the
\* caller's writer; the first error ends the loop.
write_roots(e, t, args, exprs, k, wr) ==
  IF k > Len(exprs) THEN Ok(wr)
  ELSE LET r == write_node(e, t, args, exprs[k], wr)
       IN  IF r.ok THEN write_roots(e, t, args, exprs, k + 1, r.w) ELSE r

\* Environment::write_output_string
write_output_string(e, t, wr, heap, exprs) ==
  LET a == eval_heap(e, t, heap, 1, <<>>)
  IN  IF ~a.ok THEN Err(a.err, wr) ELSE write_roots(e, t, a.args, exprs, 1, wr)

\* ------------------------------------------------------------------
\* StringSeg and StringSegBuilder
\* ------------------------------------------------------------------
SegStr(s) == [k |-> "Str", s |-> s, sort |-> "", i |-> 0, t |-> "", args |-> <<>>, h |-> 0]
SegVar(sort, i) == [k |-> "Var", s |-> <<>>, sort |-> sort, i |-> i, t |-> "", args |-> <<>>, h |-> 0]
SegTerm(t, a) == [k |-> "Term", s |-> <<>>, sort |-> "", i |-> 0, t |-> t, args |-> a, h |-> 0]
SegHex(h) == [k |-> "Hex", s |-> <<>>, sort |-> "", i |-> 0, t |-> "", args |-> <<>>, h |-> h]

\* StringSegBuilder::default()
NewBuilder == [built |-> <<>>, str |-> <<>>, hex |-> None]

\* StringSegBuilder::flush
flush(b) ==
  LET b1 == IF b.str # <<>> THEN Append(b.built, SegStr(b.str)) ELSE b.built
      b2 == IF b.hex # None THEN Append(b1, SegHex(b.hex)) ELSE b1
  IN  [built |-> b2, str |-> <<>>, hex |-> None]

\* StringSegBuilder::push_hex: `match self.hex` copies the option, so the
\* Some(hi) arm pushes the byte and leaves self.hex as it was.
push_hex(b, hex) ==
  IF b.hex = None THEN [b EXCEPT !.hex = hex]
  ELSE [b EXCEPT !.str = Append(@, ShlOr(b.hex, hex))]

\* StringSegBuilder::push_str
push_str(b, s) == [b EXCEPT !.str = @ \o s]

\* StringSegBuilder::push_seg
push_seg(b, seg) ==
  CASE seg.k = "Str" -> push_str(b, seg.s)
    [] seg.k = "Hex" -> push_hex(b, seg.h)
    [] OTHER -> [flush(b) EXCEPT !.built = Append(@, seg)]

BOk(b) == [ok |-> TRUE, err |-> NoError, out |-> b]
BErr(e, b) == [ok |-> FALSE, err |-> e, out |-> b]

\* StringSegBuilder::make, applied to the outcome r of the closure: the
\* builder is flushed and its finalized segments returned.
make(r) ==
  IF r.ok THEN [ok |-> TRUE, err |-> NoError, segs |-> flush(r.out).built]
  ELSE [ok |-> FALSE, err |-> r.err, segs |-> <<>>]

RECURSIVE process_node(_, _, _, _, _)
RECURSIVE process_args(_, _, _, _, _, _)

\* process_node, the `_` arm's map over ns: each sub-node ns[k..] is
\* built into a sequence of its own; the first error ends the collect.
process_args(t, targs, ns, heap, k, acc) ==
  IF k > Len(ns) THEN [ok |-> TRUE, err |-> NoError, segs |-> acc]
  ELSE LET r == make(process_node(t, targs, ns[k], heap, NewBuilder))
       IN  IF r.ok THEN process_args(t, targs, ns, heap, k + 1, Append(acc, r.segs))
           ELSE r

\* Environment::process_node
process_node(t, targs, nd, heap, out) ==
  CASE nd.tag = "Dummy" -> BErr(StringError("dummy not permitted"), out)
    [] nd.tag = "Ref" ->
         IF nd.i < Len(targs)
         THEN IF targs[nd.i + 1].k = "Reg" /\ targs[nd.i + 1].deps = 0
              THEN BOk(push_seg(out, SegVar(targs[nd.i + 1].sort, nd.i)))
              ELSE BErr(PanicError("unreachable"), out)
         ELSE IF nd.i - Len(targs) < Len(heap)
              THEN BOk([flush(out) EXCEPT !.built = @ \o heap[nd.i - Len(targs) + 1]])
              ELSE BErr(PanicError("index out of bounds"), out)
    [] OTHER ->
         LET ty == Get(t, nd.t)
         IN  CASE ty.k = "S0" -> BOk(out)
               [] ty.k = "S1" -> process_node(t, targs, nd.ns[1], heap, out)
               [] ty.k \in {"SAdd", "SCons", "Ch"} ->
                    LET r == process_node(t, targs, nd.ns[1], heap, out)
                    IN  IF r.ok THEN process_node(t, targs, nd.ns[2], heap, r.out) ELSE r
               [] ty.k = "Hex" -> BOk(push_hex(out, ty.h))
               [] OTHER ->
                    LET a == process_args(t, targs, nd.ns, heap, 1, <<>>)
                    IN  IF a.ok THEN BOk(push_seg(out, SegTerm(nd.t, a.segs)))
                        ELSE BErr(a.err, out)

RECURSIVE process_refs(_, _, _, _, _)

\* process_def, the loop over heap[td.args.len()..]: each internal entry
\* is built against the entries built before it.
process_refs(t, targs, heap, k, refs) ==
  IF k > Len(heap) THEN [ok |-> TRUE, err |-> NoError, segs |-> refs]
  ELSE LET r == make(process_node(t, targs, heap[k], refs, NewBuilder))
       IN  IF r.ok THEN process_refs(t, targs, heap, k + 1, Append(refs, r.segs))
           ELSE r

\* A String error of the resolver, with the symbol it names.
RegError(m, name, expected) ==
  [kind |-> "String", msg |-> m, name |-> name, expected |-> expected]

\* Environment::process_def
process_def(e, t, tid, name) ==
  LET td == e.terms[tid]
      refs == process_refs(t, td.args, td.val.heap, Len(td.args) + 1, <<>>)
  IN  IF td.val.kind # "def"
      THEN [ok |-> FALSE, err |-> RegError("term '{}' should be a def", name, <<>>),
            segs |-> <<>>]
      ELSE IF Len(td.val.heap) < Len(td.args)
      THEN [ok |-> FALSE, err |-> PanicError("attempt to subtract with overflow"),
            segs |-> <<>>]
      ELSE IF ~refs.ok THEN refs
      ELSE make(process_node(t, td.args, td.val.head, refs.segs, NewBuilder))

\* ------------------------------------------------------------------
\* The registry resolver
\* ------------------------------------------------------------------
\* Environment::check_sort: the SortID of a sort is modelled by its name.
check_sort(e, s) ==
  IF s \in e.sorts THEN [ok |-> TRUE, err |-> NoError, id |-> s]
  ELSE [ok |-> FALSE, err |-> RegError("sort '{}' not found", s, <<>>), id |-> ""]

\* Sorts
NoSorts == [str |-> "", hex |-> "", chr |-> ""]

\* Environment::new_sorts: string, then hex, then char; the first miss
\* is returned.
new_sorts(e) ==
  LET a == check_sort(e, "string")
      b == check_sort(e, "hex")
      c == check_sort(e, "char")
  IN  IF ~a.ok THEN [ok |-> FALSE, err |-> a.err, s |-> NoSorts]
      ELSE IF ~b.ok THEN [ok |-> FALSE, err |-> b.err, s |-> NoSorts]
      ELSE IF ~c.ok THEN [ok |-> FALSE, err |-> c.err, s |-> NoSorts]
      ELSE [ok |-> TRUE, err |-> NoError, s |-> [str |-> a.id, hex |-> b.id, chr |-> c.id]]

TOk(t) == [ok |-> TRUE, err |-> NoError, t |-> t]
TErr(e) == [ok |-> FALSE, err |-> e, t |-> ""]

\* Mutant of SigOk: only the number of arguments is compared.
SigOkArity(td, targs, tret) == Len(td.args) = Len(targs)

\* The `ok` test of check_term: return sort with no dependencies, same
\* number of arguments, each a regular variable of the wanted sort.
SigOk(td, targs, tret) ==
  /\ td.ret = <<tret, 0>>
  /\ Len(td.args) = Len(targs)
  /\ \A i \in 1..Len(targs) : td.args[i] = Reg(targs[i])

\* Environment::check_term: the TermID of a term is modelled by its name;
\* an atom that is missing, or declares no term, is a name outside
\* DOMAIN e.terms.
check_term(e, s, targs, tret, def) ==
  IF s \notin DOMAIN e.terms THEN TErr(RegError("term '{}' not found", s, <<>>))
  ELSE LET td == e.terms[s]
       IN  IF ~def /\ td.val.kind # "term"
           THEN TErr(RegError("def '{}' should be a term", s, <<>>))
           ELSE IF def /\ td.val.kind = "term"
           THEN TErr(RegError("term '{}' should be a def", s, <<>>))
           ELSE IF ~SigOk(td, targs, tret)
           THEN TErr(RegError("term '{}' has incorrect type, expected: ", s,
                              Append(targs, tret)))
           ELSE TOk(s)

\* The check_term calls of new_string_handler, in the order they are made,
\* with the InoutStringType each inserts.
Required(s) ==
  << [name |-> "s0", args |-> <<>>, ret |-> s.str, ty |-> Ty("S0")],
     [name |-> "s1", args |-> <<s.chr>>, ret |-> s.str, ty |-> Ty("S1")],
     [name |-> "sadd", args |-> <<s.str, s.str>>, ret |-> s.str, ty |-> Ty("SAdd")],
     [name |-> "ch", args |-> <<s.hex, s.hex>>, ret |-> s.chr, ty |-> Ty("Ch")] >>
  \o [i \in 1..16 |->
        [name |-> HexName(i - 1), args |-> <<>>, ret |-> s.hex, ty |-> TyHex(i - 1)]]

\* The segment sequence new_string_handler compares the scons body with.
SConsPattern(s) == <<SegVar(s.chr, 0), SegVar(s.str, 1)>>

\* Mutant of SConsAccepts: every body that builds is taken for a cons.
SConsAcceptsAny(s, segs) == TRUE

\* Mutant of SConsAccepts: any two-segment body is taken for a cons.
SConsAcceptsLen(s, segs) == Len(segs) = 2

\* new_string_handler, the test `*ss == [Var(chr, 0), Var(str, 1)]`.
SConsAccepts(s, segs) == segs = SConsPattern(s)

HErr(e) == [ok |-> FALSE, err |-> e, sorts |-> NoSorts, terms |-> <<>>]

\* Environment::new_string_handler
new_string_handler(e) ==
  LET so == new_sorts(e)
      s == so.s
      req == Required(s)
      chk == [i \in 1..Len(req) |->
                check_term(e, req[i].name, req[i].args, req[i].ret, FALSE)]
      bad == {i \in 1..Len(req) : ~chk[i].ok}
      first == CHOOSE i \in bad : \A j \in bad : i <= j
      map == [n \in {req[i].name : i \in 1..Len(req)} |->
                (CHOOSE i \in 1..Len(req) : req[i].name = n) ]
      base == [n \in DOMAIN map |-> req[map[n]].ty]
      c == check_term(e, "scons", <<s.chr, s.str>>, s.str, TRUE)
      d == process_def(e, base, "scons", "scons")
      full == IF c.ok /\ d.ok /\ SConsAccepts(s, d.segs)
              THEN [n \in DOMAIN base \cup {"scons"} |->
                      IF n = "scons" THEN Ty("SCons") ELSE base[n]]
              ELSE base
  IN  IF ~so.ok THEN HErr(so.err)
      ELSE IF bad # {} THEN HErr(chk[first].err)
      ELSE [ok |-> TRUE, err |-> NoError, sorts |-> s, terms |-> full]

\* ------------------------------------------------------------------
\* Expressions and environments the operations are run on
\* ------------------------------------------------------------------
X(h) == App(HexName(h), <<>>)
Ch(a, b) == App("ch", <<a, b>>)
S0 == App("s0", <<>>)
S1(c) == App("s1", <<c>>)
SAdd(a, b) == App("sadd", <<a, b>>)
SCons(c, s) == App("scons", <<c, s>>)
C(a, b) == Ch(X(a), X(b))

HexTermNames == {HexName(i) : i \in Nibbles}

\* The declarations new_string_handler asks for: s0, s1, sadd, ch, x0..xf.
BaseDecls ==
  [n \in {"s0", "s1", "sadd", "ch"} \cup HexTermNames |->
     CASE n = "s0" -> Term(<<>>, "string", NoVal)
       [] n = "s1" -> Term(<<Reg("char")>>, "string", NoVal)
       [] n = "sadd" -> Term(<<Reg("string"), Reg("string")>>, "string", NoVal)
       [] n = "ch" -> Term(<<Reg("hex"), Reg("hex")>>, "char", NoVal)
       [] OTHER -> Term(<<>>, "hex", NoVal)]

\* def scons (c: char) (s: string): string = sadd (s1 c) s
SConsDef == Term(<<Reg("char"), Reg("string")>>, "string",
                 Def(<<Ref(0), Ref(1)>>, SAdd(S1(Ref(0)), Ref(1))))

\* def scons (c: char) (s: string): string = sadd s (s1 c)
SConsSwapped == Term(<<Reg("char"), Reg("string")>>, "string",
                     Def(<<Ref(0), Ref(1)>>, SAdd(Ref(1), S1(Ref(0)))))

\* Declarations of the user: definitions that write_node unfolds, and an
\* abstract term outside the registry.
\*   def foo (x: char): string = sadd (s1 x) s0
\*   def konst (s: string): string = s1 (ch x4 x1)
\*   def twice (c: char): string = sadd (s1 c) (s1 c)   (s1 c shared)
\*   def hx (h: hex): hex = h
\*   def c2 (a b: hex): char = ch a b
\*   def wrap (c: char): string = foo c
\*   def usebar (c: char): string = sadd (s1 c) bar
\*   term bar: string
UserDecls ==
  [n \in {"foo", "konst", "twice", "hx", "c2", "wrap", "usebar", "bar"} |->
     CASE n = "foo" ->
            Term(<<Reg("char")>>, "string", Def(<<Ref(0)>>, SAdd(S1(Ref(0)), S0)))
       [] n = "konst" ->
            Term(<<Reg("string")>>, "string", Def(<<Ref(0)>>, S1(C(4, 1))))
       [] n = "twice" ->
            Term(<<Reg("char")>>, "string",
                 Def(<<Ref(0), S1(Ref(0))>>, SAdd(Ref(1), Ref(1))))
       [] n = "hx" -> Term(<<Reg("hex")>>, "hex", Def(<<Ref(0)>>, Ref(0)))
       [] n = "c2" ->
            Term(<<Reg("hex"), Reg("hex")>>, "char",
                 Def(<<Ref(0), Ref(1)>>, Ch(Ref(0), Ref(1))))
       [] n = "wrap" ->
            Term(<<Reg("char")>>, "string", Def(<<Ref(0)>>, App("foo", <<Ref(0)>>)))
       [] n = "usebar" ->
            Term(<<Reg("char")>>, "string",
                 Def(<<Ref(0)>>, SAdd(S1(Ref(0)), App("bar", <<>>))))
       [] OTHER -> Term(<<>>, "string", NoVal)]

BaseSorts == {"string", "hex", "char"}

\* An environment with everything the codec asks for, and no scons.
EnvBase == [sorts |-> BaseSorts, terms |-> BaseDecls @@ UserDecls]

\* EnvBase with a declaration added or replaced.
WithTerm(e, n, td) == [e EXCEPT !.terms = (n :> td) @@ e.terms]
\* EnvBase with a term or a sort deleted.
WithoutTerm(e, n) ==
  [e EXCEPT !.terms = [m \in (DOMAIN e.terms) \ {n} |-> e.terms[m]]]
WithoutSort(e, n) == [e EXCEPT !.sorts = @ \ {n}]

Env0 == WithTerm(EnvBase, "scons", SConsDef)
EnvSwap == WithTerm(EnvBase, "scons", SConsSwapped)

\* InoutHandlers.string / run_output's `handler`: Option<(Sorts, HashMap)>
NoHandler == [some |-> FALSE, sorts |-> NoSorts, terms |-> <<>>]
SomeHandler(r) == [some |-> TRUE, sorts |-> r.sorts, terms |-> r.terms]

\* ------------------------------------------------------------------
\* Specification SpecWriter: calls on one StringWriter
\* ------------------------------------------------------------------
StrInputs == {<<>>, <<104>>, <<104, 105>>}
PartInputs == {HexPart(7), StrPart(<<33>>)}

Call(op, k, h, buf) == [op |-> op, k |-> k, h |-> h, buf |-> buf]

InitWriter ==
  /\ env = Env0
  /\ stmts = <<>>
  /\ handler = NoHandler
  /\ w \in {NewWriter(VecSink), NewWriter(BoundedSink(1))}
  /\ pc = "writer"
  /\ idx = 0
  /\ ret = Ok(w)
  /\ arg = Call("new", "", 0, <<>>)
  /\ hist = [calls |-> 0, nhex |-> 0, nstr |-> 0, before |-> w,
             prev |-> [op |-> "", k |-> "", hex |-> None]]

\* What a call leaves behind: the writer, the Result, and the history.
AfterCall(r, c, dhex, dstr) ==
  /\ w' = r.w
  /\ ret' = r
  /\ arg' = c
  /\ hist' = [calls |-> hist.calls + 1, nhex |-> hist.nhex + dhex,
              nstr |-> hist.nstr + dstr, before |-> w,
              prev |-> [op |-> arg.op, k |-> arg.k, hex |-> hist.before.hex]]
  /\ UNCHANGED <<env, stmts, handler, pc, idx>>

\* A caller goes on to the next call only after an Ok (`?`).
CanCall == pc = "writer" /\ ret.ok /\ hist.calls < MaxCalls

CallWriteHex ==
  \E h \in Nibbles :
    /\ CanCall
    /\ AfterCall(write_hex(w, h), Call("write_hex", "Hex", h, <<>>), 1, 0)

CallWriteStr ==
  \E buf \in StrInputs :
    /\ CanCall
    /\ AfterCall(write_str(w, buf), Call("write_str", "Str", 0, buf), 0, Len(buf))

CallWritePart ==
  \E p \in PartInputs :
    /\ CanCall
    /\ AfterCall(write_part(w, p), Call("write_part", p.k, p.h, p.s),
                 IF p.k = "Hex" THEN 1 ELSE 0, Len(p.s))

NextWriter == CallWriteHex \/ CallWriteStr \/ CallWritePart

SpecWriter == InitWriter /\ [][NextWriter]_vars

\* C2: write_hex follows the nibble rule in every writer state: with no
\* nibble pending, h becomes pending and nothing is emitted; with p pending,
\* exactly the byte p*16 + h is emitted and nothing stays pending. So after
\* n write_hex calls on a fresh writer (literal writes in between counted
\* apart) n \div 2 bytes came from nibbles, and a nibble is pending iff n is
\* odd. A call that returns the sink's error is not covered.
C2_WriteHexNibbleRule ==
  (pc = "writer" /\ ret.ok) =>
    /\ (arg.k = "Hex" /\ hist.before.hex = None) =>
          (w.hex = arg.h /\ w.w = hist.before.w)
    /\ (arg.k = "Hex" /\ hist.before.hex # None) =>
          /\ w.w.buf = Append(hist.before.w.buf, 16 * hist.before.hex + arg.h)
          /\ w.hex = None
    /\ Len(w.w.buf) = (hist.nhex \div 2) + hist.nstr
    /\ (w.hex # None) <=> (hist.nhex % 2 = 1)

\* C2 witness: a second write_hex, made while a nibble was pending and after
\* a literal write, has returned Ok.
C2_Witness ==
  /\ pc = "writer" /\ ret.ok
  /\ arg.op = "write_hex" /\ hist.before.hex # None
  /\ hist.nhex = 2 /\ hist.nstr > 0

\* C10: write_str appends exactly the given bytes and leaves the pending
\* nibble as it was, whatever the writer state (the nibble is kept even when
\* the sink fails); a nibble that was pending across the literal write
\* combines, as the high half, with the next write_hex.
C10_WriteStrKeepsNibble ==
  (pc = "writer") =>
    /\ (arg.k = "Str") =>
          /\ w.hex = hist.before.hex
          /\ ret.ok => w.w.buf = hist.before.w.buf \o arg.buf
    /\ (arg.k = "Hex" /\ hist.prev.k = "Str" /\ hist.prev.hex # None /\ ret.ok) =>
          /\ Len(w.w.buf) > 0
          /\ w.w.buf[Len(w.w.buf)] = 16 * hist.prev.hex + arg.h
          /\ w.hex = None

\* C10 witness: bytes were written while a nibble was pending, and the next
\* write_hex has then returned Ok.
C10_Witness ==
  /\ pc = "writer" /\ ret.ok
  /\ arg.op = "write_hex"
  /\ hist.prev.op = "write_str" /\ hist.prev.hex # None
  /\ Len(hist.before.w.buf) > 0

\* ------------------------------------------------------------------
\* Specification SpecEval: write_node and eval_string on given inputs
\* ------------------------------------------------------------------
\* A resolved list of the caller: a nibble (hex), a byte (char), a string.
OuterParts == <<HexPart(4), StrPart(<<66>>), StrPart(<<1, 2>>)>>

HexArgs == {X(1), X(15), Ref(0), App("hx", <<X(2)>>), Dummy}
CharArgs == {C(4, 2), Ch(Ref(0), X(3)), Ref(1), App("c2", <<X(1), Ref(0)>>), Dummy}
StrArgs ==
  {S0, S1(C(4, 2)), Ref(2), App("bar", <<>>), App("foo", <<C(6, 1)>>),
   SAdd(Ref(2), S1(Ref(1))), Dummy}

\* Applications of definitions (scons is one of them where it is not a cons).
DefApps ==
  {App("foo", <<c>>) : c \in CharArgs}
    \cup {App("twice", <<c>>) : c \in CharArgs}
    \cup {App("wrap", <<c>>) : c \in CharArgs}
    \cup {App("usebar", <<c>>) : c \in CharArgs}
    \cup {App("konst", <<a>>) : a \in StrArgs}
    \cup {App("hx", <<h>>) : h \in HexArgs}
    \cup {App("c2", <<a, b>>) : a \in HexArgs, b \in HexArgs}
    \cup {SCons(c, a) : c \in CharArgs, a \in StrArgs}

\* String terms of built-in symbols, and their left-nested concatenations.
StrBuiltins ==
  {S0, S1(C(4, 2)), SAdd(S1(C(1, 15)), S1(C(0, 1))), SCons(C(6, 1), S0)}
SAddTriples == {SAdd(SAdd(a, b), c) : a \in StrBuiltins, b \in StrBuiltins, c \in StrBuiltins}

\* Writers a node can meet: a nibble is pending only where a hex is due.
WriterWith(buf, hex) == [w |-> [VecSink EXCEPT !.buf = buf], hex |-> hex]
CleanWriters == {WriterWith(<<>>, None), WriterWith(<<7>>, None)}
AnyWriters == CleanWriters \cup {WriterWith(<<>>, 10), WriterWith(<<7>>, 3)}

NodeInputs ==
  {[node |-> n, parts |-> OuterParts, w |-> x] :
      n \in {a \in DefApps : a.t # "hx"}, x \in CleanWriters}
    \cup {[node |-> n, parts |-> OuterParts, w |-> x] :
            n \in {a \in DefApps : a.t = "hx"}, x \in AnyWriters}
    \cup {[node |-> n, parts |-> <<>>, w |-> x] : n \in SAddTriples, x \in AnyWriters}

Stmt(heap, exprs) == [heap |-> heap, exprs |-> exprs]

\* s1(ch(xA, xB)) as the deduplicator hands it over: without sharing, and
\* for A = B with the digit shared through the heap.
S1ChStmts ==
  {Stmt(<<>>, <<S1(C(a, b))>>) : a \in Nibbles, b \in Nibbles}
    \cup {Stmt(<<X(a)>>, <<S1(Ch(Ref(0), Ref(0)))>>) : a \in Nibbles}

OtherStmts ==
  { Stmt(<<>>, <<Dummy>>),
    Stmt(<<>>, <<SAdd(S1(C(4, 2)), Dummy)>>),
    Stmt(<<>>, <<S1(C(4, 2)), Dummy>>),
    Stmt(<<>>, <<S1(Ch(X(4), Dummy))>>),
    Stmt(<<Dummy>>, <<S1(C(4, 2)), Ref(0)>>),
    Stmt(<<Dummy>>, <<S1(C(4, 2))>>),
    Stmt(<<S1(Ch(X(4), Dummy))>>, <<SAdd(Ref(0), Ref(0))>>),
    Stmt(<<S1(C(4, 2)), Dummy>>, <<Ref(0)>>),
    Stmt(<<>>, <<App("foo", <<Dummy>>)>>),
    Stmt(<<>>, <<SAdd(S1(C(4, 2)), App("konst", <<Dummy>>))>>),
    Stmt(<<>>, <<App("bar", <<>>), Dummy>>),
    Stmt(<<App("bar", <<>>)>>, <<S1(C(4, 2)), Dummy>>),
    Stmt(<<>>, <<SCons(Dummy, S0)>>),
    Stmt(<<>>, <<App("usebar", <<C(4, 2)>>), Dummy>>),
    Stmt(<<S1(C(4, 2))>>, <<SAdd(Ref(0), Ref(0))>>),
    Stmt(<<X(4)>>, <<S1(Ch(Ref(0), X(2))), S1(Ch(X(2), Ref(0)))>>),
    Stmt(<<C(6, 1)>>, <<App("foo", <<Ref(0)>>), SCons(Ref(0), S0)>>),
    Stmt(<<>>, <<App("bar", <<>>)>>),
    Stmt(<<>>, <<>>) }

StmtInputs == S1ChStmts \cup OtherStmts

EvalArg(node, parts, heap, exprs) ==
  [node |-> node, parts |-> parts, heap |-> heap, exprs |-> exprs]

\* The registry is the one get_string_handler has cached for the session.
InitEval ==
  /\ env \in {Env0, EnvSwap}
  /\ stmts = <<>>
  /\ handler = SomeHandler(new_string_handler(env))
  /\ idx = 0
  /\ \/ /\ pc = "node"
        /\ \E c \in NodeInputs :
             /\ arg = EvalArg(c.node, c.parts, <<>>, <<>>)
             /\ w = c.w
     \/ /\ pc = "stmt"
        /\ \E st \in StmtInputs : arg = EvalArg(Dummy, <<>>, st.heap, st.exprs)
        /\ w = NewWriter(VecSink)
  /\ ret = Ok(w)
  /\ hist = [before |-> w]

\* One call of write_node on the caller's writer.
WriteNode ==
  /\ pc = "node"
  /\ LET r == write_node(env, handler.terms, arg.parts, arg.node, w)
     IN  w' = r.w /\ ret' = r
  /\ pc' = "node_done"
  /\ UNCHANGED <<env, stmts, handler, idx, arg, hist>>

\* Elaborator::eval_string from `let mut w = StringWriter::default()` on:
\* the statement is written to a fresh writer over a Vec.
EvalString ==
  /\ pc = "stmt"
  /\ LET r == write_output_string(env, handler.terms, w, arg.heap, arg.exprs)
     IN  w' = r.w /\ ret' = r
  /\ pc' = "stmt_done"
  /\ UNCHANGED <<env, stmts, handler, idx, arg, hist>>

NextEval == WriteNode \/ EvalString

SpecEval == InitEval /\ [][NextEval]_vars

\* C1: for all hex digits A, B the root s1(ch(xA, xB)), written by
\* write_output_string into a writer with no pending nibble, emits exactly
\* the one byte 16*A + B and leaves no nibble pending.
C1_S1ChOneByte ==
  (pc = "stmt_done") =>
    \A a \in Nibbles, b \in Nibbles :
      ( \/ (arg.heap = <<>> /\ arg.exprs = <<S1(C(a, b))>>)
        \/ (a = b /\ arg.heap = <<X(a)>> /\ arg.exprs = <<S1(Ch(Ref(0), Ref(0)))>>) )
      => (ret.ok /\ w.w.buf = <<16 * a + b>> /\ w.hex = None)

\* C1 witness: s1(ch(x0, x1)) has been written.
C1_Witness ==
  /\ pc = "stmt_done" /\ ret.ok
  /\ arg.heap = <<>> /\ arg.exprs = <<S1(C(0, 1))>>

\* The body of a definition with its references replaced in place: formal
\* parameter i by the i-th actual argument, internal heap entry j by its own
\* expression, itself so replaced.
RECURSIVE Replace(_, _)
Replace(nd, sub) ==
  CASE nd.tag = "Ref" -> sub[nd.i + 1]
    [] nd.tag = "App" -> App(nd.t, [k \in 1..Len(nd.ns) |-> Replace(nd.ns[k], sub)])
    [] OTHER -> nd

RECURSIVE ReplaceHeap(_, _, _)
ReplaceHeap(heap, k, sub) ==
  IF k > Len(heap) THEN sub
  ELSE ReplaceHeap(heap, k + 1, Append(sub, Replace(heap[k], sub)))

Inline(e, nd) ==
  LET expr == e.terms[nd.t].val
  IN  Replace(expr.head, ReplaceHeap(expr.heap, Len(nd.ns) + 1, nd.ns))

\* The node is an application that write_node unfolds.
IsUnfolding(e, t, nd) ==
  nd.tag = "App" /\ nd.t \notin DOMAIN t /\ e.terms[nd.t].val.kind = "def"

\* Every actual argument and internal heap entry of the unfolding is
\* written without error.
FrameResolves(e, t, heap, nd) ==
  LET a1 == eval_args(e, t, heap, nd.ns, 1, <<>>)
  IN  a1.ok /\ eval_heap(e, t, e.terms[nd.t].val.heap, Len(nd.ns) + 1, a1.args).ok

\* C3 as stated: every unfolding leaves the writer (bytes, pending nibble,
\* outcome) as writing the body with its references replaced in place does.
C3_UnfoldIsSubstitution_Original ==
  (pc = "node_done" /\ IsUnfolding(env, handler.terms, arg.node)) =>
    ret = write_node(env, handler.terms, arg.parts, Inline(env, arg.node), hist.before)

\* C3, amended: an unfolding whose actual arguments and internal heap entries
\* are all written without error leaves the writer (bytes, pending nibble,
\* outcome) as writing the body with its references replaced in place does;
\* foo(ch(x4, x2)) emits the single byte 0x42.
C3_UnfoldIsSubstitution ==
  (pc = "node_done" /\ IsUnfolding(env, handler.terms, arg.node)) =>
    /\ FrameResolves(env, handler.terms, arg.parts, arg.node) =>
         ret = write_node(env, handler.terms, arg.parts, Inline(env, arg.node),
                          hist.before)
    /\ (arg.node = App("foo", <<C(4, 2)>>)) =>
         /\ ret.ok
         /\ w.w.buf = Append(hist.before.w.buf, 66)
         /\ w.hex = None

\* C3 witness: a definition with an internal heap entry has been unfolded on
\* an argument that refers to the caller's heap.
C3_Witness ==
  /\ pc = "node_done" /\ ret.ok
  /\ arg.node = App("twice", <<Ch(Ref(0), X(3))>>)

RECURSIVE HasDummy(_)
HasDummy(nd) ==
  nd.tag = "Dummy" \/ \E k \in 1..Len(nd.ns) : HasDummy(nd.ns[k])

\* An application of a term that is neither in the registry nor a
\* definition with a body occurs in nd, or in a definition nd unfolds.
RECURSIVE HasUnknown(_, _, _)
HasUnknown(e, t, nd) ==
  /\ nd.tag = "App"
  /\ \/ \E k \in 1..Len(nd.ns) : HasUnknown(e, t, nd.ns[k])
     \/ /\ nd.t \notin DOMAIN t
        /\ \/ e.terms[nd.t].val.kind # "def"
           \/ HasUnknown(e, t, e.terms[nd.t].val.head)
           \/ \E k \in 1..Len(e.terms[nd.t].val.heap) :
                 HasUnknown(e, t, e.terms[nd.t].val.heap[k])

SeqHasDummy(es) == \E k \in 1..Len(es) : HasDummy(es[k])
SeqHasUnknown(e, t, es) == \E k \in 1..Len(es) : HasUnknown(e, t, es[k])

\* The roots before the first root that holds a dummy.
RootsBeforeDummy(es) ==
  SubSeq(es, 1, (CHOOSE k \in 1..Len(es) :
                   HasDummy(es[k]) /\ \A j \in 1..(k - 1) : ~HasDummy(es[j])) - 1)

IsPrefix(p, q) == Len(p) <= Len(q) /\ SubSeq(q, 1, Len(p)) = p

\* C4 as stated: a dummy anywhere in the heap or the roots makes the
\* statement fail with the dummy error, and the statement writes no byte.
C4_DummyFailsNoBytes_Original ==
  (pc = "stmt_done" /\ (SeqHasDummy(arg.heap) \/ SeqHasDummy(arg.exprs))) =>
    /\ ~ret.ok
    /\ ret.err = StringError(DummyMsg)
    /\ w.w.buf = <<>>

\* C4, amended: a dummy anywhere in the heap or the roots makes the
\* statement fail, with the dummy error unless an application of an unknown
\* definition is in the statement too; a dummy in the heap fails the
\* statement before any byte is written; a dummy in a root fails it after
\* the roots before that root were written in full, and those bytes stay.
C4_DummyFails ==
  (pc = "stmt_done" /\ (SeqHasDummy(arg.heap) \/ SeqHasDummy(arg.exprs))) =>
    /\ ~ret.ok
    /\ ret.err.kind = "String"
    /\ ~(SeqHasUnknown(env, handler.terms, arg.heap)
           \/ SeqHasUnknown(env, handler.terms, arg.exprs))
         => ret.err = StringError(DummyMsg)
    /\ SeqHasDummy(arg.heap) => w.w.buf = <<>>
    /\ (~SeqHasDummy(arg.heap) /\ ~SeqHasUnknown(env, handler.terms, arg.heap)) =>
         LET before == write_output_string(env, handler.terms, hist.before,
                                           arg.heap, RootsBeforeDummy(arg.exprs))
         IN  before.ok => IsPrefix(before.w.w.buf, w.w.buf)

\* C4 witness: a statement whose second root is a dummy has failed after
\* the byte of its first root was written.
C4_Witness ==
  /\ pc = "stmt_done" /\ ~ret.ok
  /\ arg.exprs = <<S1(C(4, 2)), Dummy>>
  /\ w.w.buf = <<66>>

\* C9: concatenation is output-associative: from any writer state, writing
\* sadd(sadd(a, b), c) and writing sadd(a, sadd(b, c)) emit the same bytes
\* and leave the same pending nibble.
C9_SAddAssociative ==
  (pc = "node_done" /\ arg.node.t = "sadd") =>
    LET ab == arg.node.ns[1]
    IN  (ab.tag = "App" /\ ab.t = "sadd") =>
          ret = write_node(env, handler.terms, arg.parts,
                           SAdd(ab.ns[1], SAdd(ab.ns[2], arg.node.ns[2])), hist.before)

\* C9 witness: a left-nested concatenation of three non-empty strings has
\* been written to a writer that had a nibble pending.
C9_Witness ==
  /\ pc = "node_done" /\ ret.ok
  /\ hist.before.hex # None
  /\ arg.node = SAdd(SAdd(S1(C(4, 2)), SAdd(S1(C(1, 15)), S1(C(0, 1)))), SCons(C(6, 1), S0))

\* ------------------------------------------------------------------
\* Specification SpecResolve: get_string_handler on given environments
\* ------------------------------------------------------------------
MaxLookups == 2   \* calls of get_string_handler in one session

CharStr == <<Reg("char"), Reg("string")>>
SConsTerm(val) == Term(CharStr, "string", val)

\* Declarations of scons that the alias check meets.
SConsAbstract == SConsTerm(NoVal)
SConsNoBody == SConsTerm(NoBody)
SConsNested == SConsTerm(Def(<<Ref(0), Ref(1)>>, SAdd(S1(Ref(0)), SAdd(S0, Ref(1)))))
SConsViaHeap == SConsTerm(Def(<<Ref(0), Ref(1), S1(Ref(0))>>, SAdd(Ref(2), Ref(1))))
SConsDummy == SConsTerm(Def(<<Ref(0), Ref(1)>>, SAdd(S1(Ref(0)), SAdd(Dummy, Ref(1)))))
SConsExtra == SConsTerm(Def(<<Ref(0), Ref(1)>>, SAdd(SAdd(S1(Ref(0)), Ref(1)), Ref(1))))
SConsLiteral ==
  SConsTerm(Def(<<Ref(0), Ref(1)>>, SAdd(S1(C(4, 1)), SAdd(S1(Ref(0)), Ref(1)))))
SConsOnlyFirst == SConsTerm(Def(<<Ref(0), Ref(1)>>, S1(Ref(0))))
SConsViaFoo == SConsTerm(Def(<<Ref(0), Ref(1)>>, SAdd(App("foo", <<Ref(0)>>), Ref(1))))
SConsStrStr ==
  Term(<<Reg("string"), Reg("string")>>, "string", Def(<<Ref(0), Ref(1)>>, SAdd(Ref(0), Ref(1))))
SConsBound ==
  Term(<<Bound("char"), Reg("string")>>, "string",
       Def(<<Ref(0), Ref(1)>>, SAdd(S1(Ref(0)), Ref(1))))
SConsRetDeps ==
  [args |-> CharStr, ret |-> <<"string", 1>>,
   val |-> Def(<<Ref(0), Ref(1)>>, SAdd(S1(Ref(0)), Ref(1)))]

SConsDecls ==
  {SConsDef, SConsSwapped, SConsAbstract, SConsNoBody, SConsNested, SConsViaHeap,
   SConsDummy, SConsExtra, SConsLiteral, SConsOnlyFirst, SConsViaFoo, SConsStrStr,
   SConsBound, SConsRetDeps}

RequiredNames == {"s0", "s1", "sadd", "ch"} \cup HexTermNames

\* Ways a required term can be declared wrongly.
AsDef(td) == [td EXCEPT !.val = Def([i \in 1..Len(td.args) |-> Ref(i - 1)], S0)]
AsNoBody(td) == [td EXCEPT !.val = NoBody]
WrongRet(td) == [td EXCEPT !.ret = <<IF td.ret[1] = "string" THEN "char" ELSE "string", 0>>]
RetDeps(td) == [td EXCEPT !.ret = <<td.ret[1], 1>>]
ExtraArg(td) == [td EXCEPT !.args = Append(@, Reg("hex"))]
BoundArgs(td) == [td EXCEPT !.args = [i \in 1..Len(td.args) |-> Bound(td.args[i].sort)]]
Faults(td) ==
  {AsDef(td), AsNoBody(td), WrongRet(td), RetDeps(td), ExtraArg(td)}
    \cup (IF td.args # <<>> THEN {BoundArgs(td)} ELSE {})

\* A sort can only be missing together with the terms declared over it.
Mentions(td, srt) == td.ret[1] = srt \/ \E i \in 1..Len(td.args) : td.args[i].sort = srt
WithoutSortAndTerms(e, srt) ==
  [sorts |-> e.sorts \ {srt},
   terms |-> [n \in {m \in DOMAIN e.terms : ~Mentions(e.terms[m], srt)} |-> e.terms[n]]]

ResolveEnvs ==
  {EnvBase}
    \cup {WithTerm(EnvBase, "scons", d) : d \in SConsDecls}
    \cup {WithoutTerm(Env0, n) : n \in RequiredNames}
    \cup {WithoutTerm(WithoutTerm(Env0, "sadd"), n) : n \in {"s0", "ch", "xf"}}
    \cup UNION {{WithTerm(Env0, n, f) : f \in Faults(BaseDecls[n])} : n \in RequiredNames}
    \cup {WithoutSortAndTerms(Env0, srt) : srt \in BaseSorts}
    \cup {WithoutSort(Env0, srt) : srt \in BaseSorts}
    \cup {WithoutSort(WithoutTerm(Env0, "s0"), "char")}

\* Span of the command that asks for the handler.
NoSpan == [start |-> 0, end |-> 0]
SpanAt(i) == [start |-> 10 * i, end |-> 10 * i + 5]

ROk == [ok |-> TRUE, err |-> NoError, span |-> NoSpan]
RErr(sp, e) == [ok |-> FALSE, err |-> e, span |-> sp]

InitResolve ==
  /\ env \in ResolveEnvs
  /\ stmts = <<>>
  /\ handler = NoHandler
  /\ w = NewWriter(VecSink)
  /\ pc = "session"
  /\ idx = 0
  /\ ret = ROk
  /\ arg = [sp |-> NoSpan]
  /\ hist = [lookups |-> 0, resolved |-> 0]

\* Elaborator::get_string_handler: the registry is resolved when the slot is
\* empty and cached when that succeeds; a filled slot is handed back as is.
GetStringHandler ==
  /\ pc = "session"
  /\ hist.lookups < MaxLookups
  /\ LET sp == SpanAt(hist.lookups + 1)
         r == new_string_handler(env)
     IN  /\ arg' = [sp |-> sp]
         /\ IF handler.some
            THEN /\ ret' = ROk
                 /\ hist' = [hist EXCEPT !.lookups = @ + 1]
                 /\ UNCHANGED handler
            ELSE /\ hist' = [lookups |-> hist.lookups + 1, resolved |-> hist.resolved + 1]
                 /\ handler' = IF r.ok THEN SomeHandler(r) ELSE handler
                 /\ ret' = IF r.ok THEN ROk ELSE RErr(sp, r.err)
  /\ UNCHANGED <<env, stmts, w, pc, idx>>

NextResolve == GetStringHandler

SpecResolve == InitResolve /\ [][NextResolve]_vars

\* The signature the codec wants of each required term: the sorts of the
\* arguments, then the return sort.
WantedSig(n) ==
  CASE n = "s0" -> <<"string">>
    [] n = "s1" -> <<"char", "string">>
    [] n = "sadd" -> <<"string", "string", "string">>
    [] n = "ch" -> <<"hex", "hex", "char">>
    [] OTHER -> <<"hex">>

\* Term n of e has exactly the wanted signature.
HasWantedSig(e, n) ==
  LET td == e.terms[n]
      sig == WantedSig(n)
  IN  /\ td.ret = <<sig[Len(sig)], 0>>
      /\ td.args = [i \in 1..(Len(sig) - 1) |-> Reg(sig[i])]

\* The sorts and terms of e that are missing or not as wanted.
Offenders(e) ==
  (BaseSorts \ e.sorts)
    \cup {n \in RequiredNames :
            \/ n \notin DOMAIN e.terms
            \/ e.terms[n].val.kind # "term"
            \/ ~HasWantedSig(e, n)}

\* Term n of e is there, abstract, and of another signature.
Mismatched(e, n) ==
  n \in RequiredNames /\ n \in DOMAIN e.terms
    /\ e.terms[n].val.kind = "term" /\ ~HasWantedSig(e, n)

Resolved == pc = "session" /\ hist.resolved > 0

ConsDecls == {SConsDef, SConsNested, SConsViaHeap}

\* The registry without the scons entry: what the body is built against.
BaseRegistry(t) == [n \in (DOMAIN t) \ {"scons"} |-> t[n]]

\* scons is a definition of signature (char, string) -> string whose body
\* the Segment Builder turns into [Var(char, 0), Var(string, 1)].
SConsQualifies(e, t) ==
  /\ "scons" \in DOMAIN e.terms
  /\ e.terms["scons"].val.kind # "term"
  /\ e.terms["scons"].args = CharStr
  /\ e.terms["scons"].ret = <<"string", 0>>
  /\ LET d == process_def(e, BaseRegistry(t), "scons", "scons")
     IN  d.ok /\ d.segs = <<SegVar("char", 0), SegVar("string", 1)>>

\* An application of scons to write when scons is declared.
SConsProbe == SCons(C(4, 2), S1(C(6, 1)))

\* C6: scons is registered as the Cons built-in iff it is a definition of
\* signature (char, string) -> string whose body the Segment Builder turns
\* into exactly [bound-parameter(char, 0), bound-parameter(string, 1)]; in
\* every other case (absent, abstract, other signature, a body that fails,
\* has more segments, swaps the arguments or adds literals) it is left out
\* of the registry, resolution succeeds all the same, and write_node takes
\* an application of it through the arm of the unregistered terms.
C6_SConsClassification ==
  (Resolved /\ Offenders(env) = {}) =>
    /\ ret.ok /\ handler.some
    /\ ("scons" \in DOMAIN handler.terms) <=> SConsQualifies(env, handler.terms)
    /\ ("scons" \in DOMAIN handler.terms) <=>
         ("scons" \in DOMAIN env.terms /\ env.terms["scons"] \in ConsDecls)
    /\ ("scons" \in DOMAIN handler.terms) => handler.terms["scons"] = Ty("SCons")
    /\ ("scons" \in DOMAIN env.terms /\ "scons" \notin DOMAIN handler.terms) =>
         write_node(env, handler.terms, <<>>, SConsProbe, NewWriter(VecSink))
           = IF env.terms["scons"].val.kind = "def"
             THEN unfold(env, handler.terms, <<>>, SConsProbe, NewWriter(VecSink))
             ELSE Err(StringError(UnknownMsg), NewWriter(VecSink))

\* C6 witness: resolution has succeeded on an environment whose scons swaps
\* its arguments, and scons is not in the registry.
C6_Witness ==
  /\ Resolved /\ ret.ok
  /\ "scons" \in DOMAIN env.terms /\ env.terms["scons"] = SConsSwapped
  /\ "scons" \notin DOMAIN handler.terms

\* ------------------------------------------------------------------
\* Specification SpecRun: FrozenEnv::run_output over a statement trace
\* ------------------------------------------------------------------
\* StmtTrace::OutputString(OutputString {span, heap, exprs}), and the other
\* statements of the trace, which run_output passes over.
OutputString(st) == [kind |-> "OutputString", heap |-> st.heap, exprs |-> st.exprs]
OtherStmt == [kind |-> "Other", heap |-> <<>>, exprs |-> <<>>]

RunStmts ==
  { OutputString(Stmt(<<>>, <<S1(C(4, 1))>>)),
    OutputString(Stmt(<<S1(C(4, 2))>>, <<SAdd(Ref(0), Ref(0))>>)),
    OutputString(Stmt(<<>>, <<S1(C(4, 3)), Dummy>>)),
    OutputString(Stmt(<<>>, <<App("bar", <<>>)>>)),
    OutputString(Stmt(<<>>, <<App("foo", <<C(4, 4)>>), SCons(C(4, 5), S0)>>)),
    OtherStmt }

\* Traces of up to MaxStmts statements; the statement at position i was
\* registered with span SpanAt(i).
Traces ==
  UNION {[1..n -> RunStmts] : n \in 0..MaxStmts}
WithSpans(tr) ==
  [i \in 1..Len(tr) |->
     [kind |-> tr[i].kind, span |-> SpanAt(i), heap |-> tr[i].heap, exprs |-> tr[i].exprs]]

RunSinks == {VecSink} \cup {BoundedSink(c) : c \in 0..MaxCap}
RunEnvs == {Env0, WithoutSortAndTerms(Env0, "hex")}

\* The state after `let mut handler = None; let mut w = StringWriter {w,
\* hex: None}`.
InitRun ==
  /\ env \in RunEnvs
  /\ \E tr \in Traces : stmts = WithSpans(tr)
  /\ handler = NoHandler
  /\ \E sink \in RunSinks : w = NewWriter(sink)
  /\ pc = "loop"
  /\ idx = 0
  /\ ret = ROk
  /\ arg = [sp |-> NoSpan]
  /\ hist = [resolved |-> 0, evald |-> <<>>, failed |-> 0, regs |-> {}]

\* Mutant of AfterStmt: the loop goes on after a failed statement.
AfterStmtContinue(ok) == "loop"

\* The `?` after the closure: an Err returns from run_output.
AfterStmt(ok) == IF ok THEN "loop" ELSE "done"

\* The closure of run_output's loop body, given the outcome r of
\* new_string_handler: on Ok the statement is written into the run's writer
\* against the registry just resolved.
run_stmt(e, r, os, wr) ==
  IF ~r.ok THEN [ok |-> FALSE, err |-> r.err, w |-> wr, resolved |-> FALSE]
  ELSE LET o == write_output_string(e, r.terms, wr, os.heap, os.exprs)
       IN  [ok |-> o.ok, err |-> o.err, w |-> o.w, resolved |-> TRUE]

\* One turn of the loop on an OutputString statement: the registry is
\* resolved anew, whatever `handler` holds, and the statement is written.
RunOutputStmt ==
  /\ pc = "loop"
  /\ idx < Len(stmts)
  /\ stmts[idx + 1].kind = "OutputString"
  /\ \E reg \in {new_string_handler(env)} :
       \E r \in {run_stmt(env, reg, stmts[idx + 1], w)} :
         /\ handler' = IF r.resolved THEN SomeHandler(reg) ELSE handler
         /\ w' = r.w
         /\ ret' = IF r.ok THEN ROk ELSE RErr(stmts[idx + 1].span, r.err)
         /\ pc' = AfterStmt(r.ok)
         /\ hist' = [resolved |-> hist.resolved + 1,
                     evald |-> Append(hist.evald, idx + 1),
                     failed |-> IF hist.failed = 0 /\ ~r.ok THEN idx + 1 ELSE hist.failed,
                     regs |-> IF r.resolved THEN hist.regs \cup {reg.terms} ELSE hist.regs]
  /\ idx' = idx + 1
  /\ arg' = [sp |-> stmts[idx + 1].span]
  /\ UNCHANGED <<env, stmts>>

\* One turn of the loop on a statement that is no OutputString.
RunOutputSkip ==
  /\ pc = "loop"
  /\ idx < Len(stmts)
  /\ stmts[idx + 1].kind # "OutputString"
  /\ idx' = idx + 1
  /\ UNCHANGED <<env, stmts, handler, w, pc, ret, arg, hist>>

\* The end of the loop: Ok(()).
RunOutputReturn ==
  /\ pc = "loop"
  /\ idx = Len(stmts)
  /\ pc' = "done"
  /\ ret' = ROk
  /\ UNCHANGED <<env, stmts, handler, w, idx, arg, hist>>

NextRun == RunOutputStmt \/ RunOutputSkip \/ RunOutputReturn

SpecRun == InitRun /\ [][NextRun]_vars

\* C5: within one run_output over k >= 1 output statements the registry is
\* resolved exactly once, on first use, and every statement is evaluated
\* against that one cached registry.
C5_ResolvedOnce ==
  (pc \in {"loop", "done"}) =>
    /\ hist.resolved <= 1
    /\ Cardinality(hist.regs) <= 1
    /\ (hist.evald # <<>>) => hist.resolved = 1

\* The positions of the OutputString statements among the first n.
RECURSIVE OutputsUpTo(_, _)
OutputsUpTo(tr, n) ==
  IF n = 0 THEN <<>>
  ELSE IF tr[n].kind = "OutputString" THEN Append(OutputsUpTo(tr, n - 1), n)
  ELSE OutputsUpTo(tr, n - 1)

\* What one statement writes when it is written alone, to a Vec.
Alone(e, os) ==
  LET r == new_string_handler(e)
  IN  IF ~r.ok THEN Err(r.err, NewWriter(VecSink))
      ELSE write_output_string(e, r.terms, NewWriter(VecSink), os.heap, os.exprs)

\* The outputs of the statements at positions ps, one after the other.
RECURSIVE Concat(_, _, _)
Concat(e, tr, ps) ==
  IF ps = <<>> THEN <<>>
  ELSE Alone(e, tr[Head(ps)]).w.w.buf \o Concat(e, tr, Tail(ps))

\* What a sink keeps of the bytes sent to it.
Kept(sink, bytes) ==
  IF sink.bounded /\ Len(bytes) > sink.cap THEN SubSeq(bytes, 1, sink.cap) ELSE bytes

\* C8: run_output replays the output statements in registration order and
\* the sink receives the concatenation of their outputs in that order; the
\* first statement that fails (logical error or sink failure) ends the run:
\* no later statement is evaluated or writes a byte, the bytes written stay,
\* and the error carries the span of the failing statement.
C8_ReplayInOrderFailFast ==
  (pc \in {"loop", "done"}) =>
    /\ hist.evald = OutputsUpTo(stmts, idx)
    /\ w.w.buf = Kept(w.w, Concat(env, stmts, hist.evald))
    /\ (hist.failed # 0) =>
         /\ pc = "done" /\ ~ret.ok
         /\ hist.evald = OutputsUpTo(stmts, hist.failed)
         /\ hist.evald[Len(hist.evald)] = hist.failed
         /\ ret.span = stmts[hist.failed].span
         /\ ret.span = SpanAt(hist.failed)
         /\ \/ ret.err = Alone(env, stmts[hist.failed]).err
            \/ ret.err = IOError
    /\ (pc = "done" /\ hist.failed = 0) => (ret.ok /\ idx = Len(stmts))
    /\ (pc = "done") =>
         (ret.ok <=> /\ \A k \in 1..Len(hist.evald) : Alone(env, stmts[hist.evald[k]]).ok
                     /\ Kept(w.w, Concat(env, stmts, hist.evald))
                          = Concat(env, stmts, hist.evald))

\* C8 witness: the first output statement of a trace has failed after
\* writing a byte, and the output statement after it is left unevaluated.
C8_Witness ==
  /\ pc = "done" /\ ~ret.ok
  /\ hist.failed = 1 /\ Len(stmts) > 1
  /\ stmts[2].kind = "OutputString"
  /\ w.w.buf = <<67>>


\* ------------------------------------------------------------------
\* Specification SpecNodes: write_node on applications of scons and of
\* terms without a body
\* ------------------------------------------------------------------
\* Environments whose scons is a cons (three spellings) or swaps its
\* arguments, each with
\*   def opaque (c: char): string      (a definition without a body)
\*   term hterm: hex                   (an abstract term of sort hex)
NodeEnvs ==
  {WithTerm(WithTerm(WithTerm(EnvBase, "scons", d),
                     "opaque", Term(<<Reg("char")>>, "string", NoBody)),
            "hterm", Term(<<>>, "hex", NoVal)) :
     d \in {SConsDef, SConsNested, SConsViaHeap, SConsSwapped}}

\* Nodes handed to write_node: scons(a, b), applications of terms without a
\* body, and nodes that hold one.
NodeCalls ==
  {SCons(c, a) : c \in CharArgs, a \in StrArgs}
    \cup {App("opaque", <<c>>) : c \in CharArgs}
    \cup {App("bar", <<>>), App("hterm", <<>>),
          SAdd(S1(C(4, 2)), App("bar", <<>>)),
          SAdd(App("opaque", <<C(6, 1)>>), S1(C(4, 2))),
          S1(Ch(X(4), App("hterm", <<>>))),
          App("foo", <<Ch(App("hterm", <<>>), X(1))>>),
          App("konst", <<App("opaque", <<Ref(1)>>)>>),
          App("usebar", <<C(4, 2)>>)}

InitNodes ==
  /\ env \in NodeEnvs
  /\ stmts = <<>>
  /\ handler = SomeHandler(new_string_handler(env))
  /\ idx = 0
  /\ pc = "node"
  /\ \E n \in NodeCalls : arg = EvalArg(n, OuterParts, <<>>, <<>>)
  /\ w \in AnyWriters
  /\ ret = Ok(w)
  /\ hist = [before |-> w]

SpecNodes == InitNodes /\ [][WriteNode]_vars

\* The node is an application of a term that is not in the registry and
\* has no body.
IsUnknownApp(e, t, nd) ==
  nd.tag = "App" /\ nd.t \notin DOMAIN t /\ e.terms[nd.t].val.kind # "def"

\* C11: an application of a term that is not in the registry and has no
\* body (an abstract term, or a definition without a body) makes write_node
\* fail with the unknown-definition error and write nothing for it; a node
\* that holds such an application is never written with success.
C11_UnknownFails ==
  (pc = "node_done") =>
    /\ IsUnknownApp(env, handler.terms, arg.node) =>
         /\ ~ret.ok
         /\ ret.err = StringError(UnknownMsg)
         /\ w = hist.before
    /\ HasUnknown(env, handler.terms, arg.node) =>
         /\ ~ret.ok
         /\ ret.err.kind = "String"
         /\ ~HasDummy(arg.node) => ret.err = StringError(UnknownMsg)

\* C11 witness: an application of the definition without a body has been
\* handed to a writer with a byte written and a nibble pending.
C11_Witness ==
  /\ pc = "node_done" /\ ~ret.ok
  /\ arg.node = App("opaque", <<C(4, 2)>>)
  /\ hist.before = WriterWith(<<7>>, 3)

\* What a node writes to a fresh writer over a Vec.
Bytes(e, t, heap, nd) == write_node(e, t, heap, nd, NewWriter(VecSink)).w.w.buf

\* scons is in the registry, and the node is an application of it.
IsConsApp(t, nd) == nd.tag = "App" /\ nd.t = "scons" /\ "scons" \in DOMAIN t

\* scons swaps its arguments, so the body writes b before a.
SwappedWritesBFirst ==
  (pc = "node_done" /\ arg.node.t = "scons" /\ env.terms["scons"] = SConsSwapped) =>
    /\ "scons" \notin DOMAIN handler.terms
    /\ (ret.ok /\ hist.before.hex = None) =>
         w.w.buf = hist.before.w.buf
                     \o Bytes(env, handler.terms, arg.parts, arg.node.ns[2])
                     \o Bytes(env, handler.terms, arg.parts, arg.node.ns[1])

\* C15 as stated: where scons is registered as Cons, for all arguments and
\* every writer state, the Cons rule leaves the writer as the unfolding of
\* the definition of scons does; a scons that swaps its arguments is not
\* registered and writes b before a.
C15_AliasSound_Original ==
  /\ (pc = "node_done" /\ IsConsApp(handler.terms, arg.node)) =>
       ret = unfold(env, handler.terms, arg.parts, arg.node, hist.before)
  /\ SwappedWritesBFirst

\* C15, amended: where scons is registered as Cons, for all arguments that
\* are written without error and every writer with no nibble pending, the
\* Cons rule leaves the writer (bytes, pending nibble) as the unfolding of
\* the definition of scons does; when an argument fails both fail with the
\* same error; a scons that swaps its arguments is not registered and its
\* unfolding writes b before a.
C15_AliasSound ==
  /\ (pc = "node_done" /\ IsConsApp(handler.terms, arg.node)) =>
       LET u == unfold(env, handler.terms, arg.parts, arg.node, hist.before)
       IN  /\ ret.ok = u.ok
           /\ ret.err = u.err
           /\ (ret.ok /\ hist.before.hex = None) => ret = u
  /\ SwappedWritesBFirst

\* C15 witness: an application of scons to arguments that refer to the
\* caller's heap has been written by the Cons rule, where scons is defined
\* through an internal heap entry.
C15_Witness ==
  /\ pc = "node_done" /\ ret.ok
  /\ env.terms["scons"] = SConsViaHeap
  /\ "scons" \in DOMAIN handler.terms
  /\ arg.node = SCons(Ch(Ref(0), X(3)), SAdd(Ref(2), S1(Ref(1))))
  /\ hist.before = WriterWith(<<7>>, None)


\* ------------------------------------------------------------------
\* Specification SpecBuilder: calls on one StringSegBuilder
\* ------------------------------------------------------------------
MaxOps == 3       \* calls made on one StringSegBuilder before make returns

\* The builder `out` is held in w. process_node runs as in process_def for
\* a definition of arguments (c: char) (s: string) whose internal heap
\* entries are s1 (ch x4 x2), x4 and s1 c: BuilderRefs is `refs`.
BuilderRefs ==
  process_refs(handler.terms, CharStr,
               <<Ref(0), Ref(1), S1(C(4, 2)), X(4), S1(Ref(0))>>, 3, <<>>).segs

InitBuilder ==
  /\ env = EnvBase
  /\ stmts = <<>>
  /\ handler = SomeHandler(new_string_handler(env))
  /\ w = NewBuilder
  /\ pc = "builder"
  /\ idx = 0
  /\ ret = [ok |-> TRUE, err |-> NoError, segs |-> <<>>]
  /\ arg = [op |-> "default", h |-> 0]
  /\ hist = [calls |-> 0, hexes |-> <<>>, pure |-> TRUE, before |-> w]

\* What a call on the builder leaves behind.
AfterPush(b, op, h) ==
  /\ w' = b
  /\ arg' = [op |-> op, h |-> h]
  /\ hist' = [calls |-> hist.calls + 1,
              hexes |-> IF op = "push_hex" THEN Append(hist.hexes, h) ELSE hist.hexes,
              pure |-> hist.pure /\ op = "push_hex",
              before |-> w]
  /\ UNCHANGED <<env, stmts, handler, pc, idx, ret>>

\* The closure handed to make calls the builder until it returns.
CanPush == pc = "builder" /\ hist.calls < MaxOps

BuilderPushHex ==
  \E h \in {4, 1} :
    /\ CanPush
    /\ AfterPush(push_hex(w, h), "push_hex", h)

BuilderPushStr ==
  /\ CanPush
  /\ AfterPush(push_str(w, <<104>>), "push_str", 0)

BuilderPushSeg ==
  \E seg \in {SegStr(<<105>>), SegHex(2), SegVar("char", 0)} :
    /\ CanPush
    /\ AfterPush(push_seg(w, seg), "push_seg", seg.h)

BuilderFlush ==
  /\ CanPush
  /\ AfterPush(flush(w), "flush", 0)

\* process_node on the builder: a reference to an argument, references to
\* the internal heap entries (the splice), a nibble, a character, and an
\* application outside the registry.
BuilderProcessNode ==
  \E nd \in {Ref(1), Ref(2), Ref(3), X(15), S1(C(6, 1)), App("foo", <<Ref(0)>>)} :
    \E r \in {process_node(handler.terms, CharStr, nd, BuilderRefs, w)} :
      /\ CanPush
      /\ r.ok
      /\ AfterPush(r.out, "process_node", 0)

\* The end of StringSegBuilder::make: out.flush(), Ok(out.built).
BuilderMake ==
  /\ pc = "builder"
  /\ pc' = "made"
  /\ ret' = make(BOk(w))
  /\ w' = flush(w)
  /\ arg' = [op |-> "make", h |-> 0]
  /\ hist' = [hist EXCEPT !.before = w]
  /\ UNCHANGED <<env, stmts, handler, idx>>

SpecBuilder ==
  InitBuilder /\ [][BuilderPushHex \/ BuilderPushStr \/ BuilderPushSeg
                      \/ BuilderFlush \/ BuilderProcessNode \/ BuilderMake]_vars

\* The bytes of consecutive pairs of nibbles, high nibble first.
RECURSIVE PairBytes(_)
PairBytes(hs) ==
  IF Len(hs) < 2 THEN <<>>
  ELSE <<16 * hs[1] + hs[2]>> \o PairBytes(SubSeq(hs, 3, Len(hs)))

\* C12: push_hex follows the nibble rule of the writer: with no nibble
\* pending the nibble becomes pending; with p pending the byte p*16 + n is
\* appended to the literal run and no nibble stays pending. So after k
\* push_hex calls on a fresh builder make returns k \div 2 literal bytes,
\* built from consecutive pairs, then a lone nibble iff k is odd.
C12_PushHexNibbleRule ==
  /\ (pc = "builder" /\ arg.op = "push_hex") =>
       IF hist.before.hex = None
       THEN w.hex = arg.h /\ w.str = hist.before.str
       ELSE /\ w.str = Append(hist.before.str, 16 * hist.before.hex + arg.h)
            /\ w.hex = None
  /\ (pc = "made" /\ hist.pure) =>
       ret.segs = (IF Len(hist.hexes) >= 2 THEN <<SegStr(PairBytes(hist.hexes))>> ELSE <<>>)
                    \o (IF Len(hist.hexes) % 2 = 1
                        THEN <<SegHex(hist.hexes[Len(hist.hexes)])>> ELSE <<>>)

\* C13: every finalized segment sequence is canonical: no two adjacent
\* literal-byte segments, and at most one lone-nibble segment.
C13_FinalizedCanonical ==
  (pc = "made") =>
    /\ \A i \in 1..(Len(ret.segs) - 1) :
         ~(ret.segs[i].k = "Str" /\ ret.segs[i + 1].k = "Str")
    /\ Cardinality({i \in 1..Len(ret.segs) : ret.segs[i].k = "Hex"}) <= 1


\* ------------------------------------------------------------------
\* Specification SpecPart: an isolated writer turned into a StringPart
\* ------------------------------------------------------------------
\* `let mut w = StringWriter::default()` of write_node and
\* write_output_string: a fresh writer over a Vec.
InitPart ==
  /\ env = Env0
  /\ stmts = <<>>
  /\ handler = NoHandler
  /\ w = NewWriter(VecSink)
  /\ pc = "writer"
  /\ idx = 0
  /\ ret = Ok(w)
  /\ arg = Call("new", "", 0, <<>>)
  /\ hist = [calls |-> 0, nhex |-> 0, nstr |-> 0, before |-> w,
             prev |-> [op |-> "", k |-> "", hex |-> None]]

\* args.push(w.into()), and the part written by write_part to another
\* fresh writer, which ret holds; w stays the isolated writer.
IntoAndReplay ==
  /\ pc = "writer"
  /\ ret.ok
  /\ \E p \in {Into(w)} :
       /\ arg' = Call("into", p.k, p.h, p.s)
       /\ ret' = write_part(NewWriter(VecSink), p)
  /\ pc' = "part"
  /\ UNCHANGED <<env, stmts, handler, w, idx, hist>>

SpecPart == InitPart /\ [][CallWriteHex \/ CallWriteStr \/ IntoAndReplay]_vars

\* C14 as stated: for every sequence of write_hex and write_str on a fresh
\* isolated writer, the part made of it, written by write_part to another
\* fresh writer, leaves that writer with the same bytes and the same
\* pending nibble.
C14_PartLosesNothing_Original ==
  (pc = "part") => (ret.ok /\ ret.w = w)

\* C14, amended: the part made of an isolated writer, written by write_part
\* to another fresh writer, leaves that writer with the same pending nibble;
\* with the same bytes when no nibble is pending; and with no bytes at all
\* when a nibble is pending: the bytes the isolated writer emitted before
\* the nibble are not in the part.
C14_PartKeepsNibbleOrBytes ==
  (pc = "part") =>
    /\ ret.ok
    /\ ret.w.hex = w.hex
    /\ (w.hex = None) => ret.w.w.buf = w.w.buf
    /\ (w.hex # None) => ret.w.w.buf = <<>>
    /\ (w.hex = None \/ w.w.buf = <<>>) => ret.w = w

\* C14 witness: a writer that took two nibbles and a literal has been
\* turned into a part and the part replayed in full.
C14_Witness ==
  /\ pc = "part" /\ ret.ok
  /\ hist.nhex = 2 /\ hist.nstr > 0
  /\ ret.w = w


\* ------------------------------------------------------------------
\* Specification SpecShare: run_output on statements with a shared heap
\* ------------------------------------------------------------------
\* Statements as the deduplicator builds them: a heap of a nibble, a
\* character over it and a string over that, and one or two roots over the
\* heap; then a heap with a definition in it, and heaps that fail.
SharedStmts ==
  LET roots == {Ref(2), S1(Ref(1)), S1(Ch(Ref(0), Ref(0))), S1(Ch(X(2), Ref(0))),
                SAdd(Ref(2), Ref(2)), App("twice", <<Ref(1)>>), SCons(Ref(1), Ref(2))}
      heaps == {<<X(a), Ch(Ref(0), X(1)), S1(Ref(1))>> : a \in {4, 15}}
  IN  {Stmt(h, <<r>>) : h \in heaps, r \in roots}
        \cup {Stmt(h, <<r, Ref(2)>>) : h \in heaps, r \in roots}
        \cup {Stmt(h, <<S1(Ref(1)), r>>) : h \in heaps, r \in roots}
        \cup { Stmt(<<X(4), Ch(Ref(0), App("hx", <<Ref(0)>>))>>, <<S1(Ref(1)), S1(Ref(1))>>),
               Stmt(<<App("bar", <<>>)>>, <<SAdd(S1(C(4, 2)), SAdd(Ref(0), Ref(0)))>>),
               Stmt(<<C(4, 2), Dummy>>, <<SAdd(S1(Ref(0)), SAdd(Ref(1), Ref(1)))>>),
               Stmt(<<C(4, 2)>>, <<SAdd(S1(Ref(0)), S1(Ref(0))), App("usebar", <<Ref(0)>>)>>) }

\* run_output on a trace that starts with one of these statements.
InitShare ==
  /\ env = Env0
  /\ \E st \in SharedStmts :
       \E tr \in UNION {[1..n -> RunStmts] : n \in 0..(MaxStmts - 1)} :
         stmts = WithSpans(<<OutputString(st)>> \o tr)
  /\ handler = NoHandler
  /\ \E sink \in {VecSink, BoundedSink(MaxCap)} : w = NewWriter(sink)
  /\ pc = "loop"
  /\ idx = 0
  /\ ret = ROk
  /\ arg = [sp |-> NoSpan]
  /\ hist = [resolved |-> 0, evald |-> <<>>, failed |-> 0, regs |-> {}]

SpecShare == InitShare /\ [][NextRun]_vars

\* Node nd has sort srt where the references have the sorts ctx; a dummy
\* is taken to be of the sort wanted.
RECURSIVE WellSorted(_, _, _, _)
WellSorted(e, nd, srt, ctx) ==
  CASE nd.tag = "Dummy" -> TRUE
    [] nd.tag = "Ref" -> nd.i < Len(ctx) /\ ctx[nd.i + 1] = srt
    [] OTHER ->
         /\ nd.t \in DOMAIN e.terms
         /\ e.terms[nd.t].ret = <<srt, 0>>
         /\ Len(nd.ns) = Len(e.terms[nd.t].args)
         /\ \A k \in 1..Len(nd.ns) :
              WellSorted(e, nd.ns[k], e.terms[nd.t].args[k].sort, ctx)

\* The sort a heap entry is declared with.
SortOf(e, nd, ctx) ==
  CASE nd.tag = "App" /\ nd.t \in DOMAIN e.terms -> e.terms[nd.t].ret[1]
    [] nd.tag = "Ref" /\ nd.i < Len(ctx) -> ctx[nd.i + 1]
    [] OTHER -> "string"

RECURSIVE HeapSorts(_, _, _, _)
HeapSorts(e, heap, k, ctx) ==
  IF k > Len(heap) THEN ctx
  ELSE HeapSorts(e, heap, k + 1, Append(ctx, SortOf(e, heap[k], ctx)))

\* Every heap entry is well sorted over the entries before it, and every
\* root is a string over the heap.
WellSortedStmt(e, st) ==
  /\ \A k \in 1..Len(st.heap) :
       LET ctx == HeapSorts(e, st.heap, 1, <<>>)
       IN  WellSorted(e, st.heap[k], ctx[k], SubSeq(ctx, 1, k - 1))
  /\ \A k \in 1..Len(st.exprs) :
       WellSorted(e, st.exprs[k], "string", HeapSorts(e, st.heap, 1, <<>>))

\* The roots of a statement with every heap reference expanded in place.
ExpandedRoots(st) ==
  [k \in 1..Len(st.exprs) |-> Replace(st.exprs[k], ReplaceHeap(st.heap, 1, <<>>))]

\* The run has written its first output statement and no other; Fresh is
\* the writer that statement started from.
FirstWritten == pc \in {"loop", "done"} /\ hist.evald = <<1>> /\ hist.resolved = 1
Fresh == NewWriter([w.w EXCEPT !.buf = <<>>])

\* C16 as stated: for every well-sorted statement, what write_output_string
\* streams to the sink is what writing the roots with every heap reference
\* expanded in place streams to it.
C16_HeapSharingTransparent_Original ==
  (FirstWritten /\ WellSortedStmt(env, stmts[1])) =>
    LET x == write_output_string(env, handler.terms, Fresh, <<>>, ExpandedRoots(stmts[1]))
    IN  w = x.w /\ ret.ok = x.ok

\* C16, amended: for every well-sorted statement whose heap entries are all
\* written without error, what write_output_string streams to the sink
\* (bytes, pending nibble, outcome) is what writing the roots with every
\* heap reference expanded in place streams to it, a shared nibble pairing
\* with its neighbour; when a heap entry fails, the statement fails with
\* that error and nothing is written, whatever the roots would have
\* written before reaching it.
C16_HeapSharingTransparent ==
  (FirstWritten /\ WellSortedStmt(env, stmts[1])) =>
    LET x == write_output_string(env, handler.terms, Fresh, <<>>, ExpandedRoots(stmts[1]))
        a == eval_heap(env, handler.terms, stmts[1].heap, 1, <<>>)
    IN  /\ a.ok => (w = x.w /\ ret.ok = x.ok /\ ret.err = x.err)
        /\ ~a.ok => (w = Fresh /\ ~ret.ok /\ ret.err = a.err)

\* C16 witness: a statement whose heap holds the nibble x4, shared by a
\* character of the heap and by a root that pairs it with itself, has been
\* written to a Vec.
C16_Witness ==
  /\ FirstWritten /\ ret.ok
  /\ WellSortedStmt(env, stmts[1])
  /\ stmts[1].heap = <<X(4), Ch(Ref(0), X(1)), S1(Ref(1))>>
  /\ stmts[1].exprs = <<S1(Ch(Ref(0), Ref(0))), Ref(2)>>
  /\ w.w.buf = <<68, 65>>

\* C17: no nibble leaks across statements: a well-sorted statement with
\* string roots, started with no nibble pending, leaves none pending when it
\* is written with success; so in run_output, which shares one writer, the
\* sink holds the outputs the statements have when each is written alone to
\* a fresh writer (as eval_string writes it), one after the other.
C17_NoNibbleLeak ==
  (pc \in {"loop", "done"}
     /\ \A k \in 1..Len(hist.evald) : WellSortedStmt(env, stmts[hist.evald[k]])) =>
    /\ ret.ok => w.hex = None
    /\ \A k \in 1..Len(hist.evald) :
         Alone(env, stmts[hist.evald[k]]).ok => Alone(env, stmts[hist.evald[k]]).w.hex = None
    /\ w.w.buf = Kept(w.w, Concat(env, stmts, hist.evald))

\* C17 witness: a run has written two statements with success, the first
\* of them pairing a nibble of the heap with a nibble of the root.
C17_Witness ==
  /\ pc = "done" /\ ret.ok
  /\ Len(hist.evald) = 2
  /\ WellSortedStmt(env, stmts[1]) /\ WellSortedStmt(env, stmts[2])
  /\ stmts[1].exprs = <<S1(Ch(X(2), Ref(0)))>>
  /\ Len(w.w.buf) = 2


\* ------------------------------------------------------------------
\* Frames of references (under SpecEval)
\* ------------------------------------------------------------------
\* Every Ref(i) in nd has i < n.
RECURSIVE RefsBelow(_, _)
RefsBelow(nd, n) ==
  CASE nd.tag = "Ref" -> nd.i < n
    [] nd.tag = "App" -> \A k \in 1..Len(nd.ns) : RefsBelow(nd.ns[k], n)
    [] OTHER -> TRUE

\* Every application in nd has as many arguments as its term declares.
RECURSIVE ArityOk(_, _)
ArityOk(e, nd) ==
  nd.tag = "App" =>
    /\ nd.t \in DOMAIN e.terms
    /\ Len(nd.ns) = Len(e.terms[nd.t].args)
    /\ \A k \in 1..Len(nd.ns) : ArityOk(e, nd.ns[k])

\* Entry k of a heap refers to entries before it only, from position n + 1
\* on (the first n are formal parameters); the roots refer to the heap.
FrameOk(e, heap, n, roots) ==
  /\ n <= Len(heap)
  /\ \A k \in (n + 1)..Len(heap) : RefsBelow(heap[k], k - 1) /\ ArityOk(e, heap[k])
  /\ \A k \in 1..Len(roots) : RefsBelow(roots[k], Len(heap)) /\ ArityOk(e, roots[k])

\* The definitions of e refer to their own parameters and earlier internal
\* entries only.
DefsOk(e) ==
  \A n \in DOMAIN e.terms :
    e.terms[n].val.kind = "def" =>
      FrameOk(e, e.terms[n].val.heap, Len(e.terms[n].args), <<e.terms[n].val.head>>)

\* C18: with a heap, definitions and applications formed as the elaborator
\* forms them, every Ref read by write_node is an index into the resolved
\* list of its own frame, so no access is out of range; and an unfolding
\* does not read the list of its caller: a node without references is
\* written the same whatever list the caller holds.
C18_RefsResolveInFrame ==
  /\ (pc = "node_done" /\ DefsOk(env)
        /\ RefsBelow(arg.node, Len(arg.parts)) /\ ArityOk(env, arg.node)) =>
       /\ ret.err.kind # "Panic"
       /\ RefsBelow(arg.node, 0) =>
            ret = write_node(env, handler.terms, <<>>, arg.node, hist.before)
  /\ (pc = "stmt_done" /\ DefsOk(env) /\ FrameOk(env, arg.heap, 0, arg.exprs)) =>
       ret.err.kind # "Panic"

\* C18 witness: a definition with an internal heap entry has been unfolded
\* on an argument without references, for a caller that holds a list.
C18_Witness ==
  /\ pc = "node_done" /\ ret.ok
  /\ DefsOk(env) /\ ArityOk(env, arg.node)
  /\ arg.node = App("twice", <<C(4, 2)>>)
  /\ arg.parts = OuterParts

====
